---- MODULE Spec2Model ----
(***************************************************************************)
(* cattrs.gen.typeddicts: the generators of the specialised un/structure   *)
(* functions of a TypedDict.  make_dict_unstructure_fn and                 *)
(* make_dict_structure_fn emit source lines; here a generated function is  *)
(* the sequence of its emitted statements and calling it interprets them.  *)
(***************************************************************************)
EXTENDS Integers, Sequences, FiniteSets, TLC

\* ------------------------------------------------------------ bounds

\* Payloads of the values range over 0..MaxVal.
MaxVal == 1

\* ------------------------------------------------------------ values

None == "None"

\* The declared fields, in declaration order; a record type declares a
\* prefix of them.
FieldNames == <<"a", "b">>

\* The key an override renames to; also the undeclared (extra) key an
\* instance may carry.
Renamed == "r"

Keys == {FieldNames[i] : i \in 1..Len(FieldNames)} \cup {Renamed}

\* Python values by class: int n, datetime n (n its timestamp), str "n",
\* and a string that is no number.
IntV(n) == [kind |-> "int", n |-> n]
DtV(n) == [kind |-> "datetime", n |-> n]
StrV(n) == [kind |-> "str", n |-> n]
BadV == [kind |-> "bad", n |-> 0]

\* A dict: a function from the keys it holds.
Dicts(vals) == UNION {[ks -> vals] : ks \in SUBSET Keys}

DictSet(d, k, v) == [x \in DOMAIN d \cup {k} |-> IF x = k THEN v ELSE d[x]]

\* ------------------------------------------------------------ converter

\* The converter of the tests: datetime hooks both ways, and optionally a
\* user hook for int that returns its argument.  recursive holds the
\* record types whose structure dispatch cannot finish because their type
\* graph refers back to itself; the types of the tests have none.
Converters == [int_hook : BOOLEAN, recursive : {{}}]

\* What a dispatch yields in place of a handler when it raises
\* RecursionError.
RecursionError == "RecursionError"

\* converter._unstructure_func.dispatch(t)
unstructure_dispatch(converter, t) ==
    CASE t = "datetime" -> "datetime_timestamp"
      [] t = "int" -> IF converter.int_hook THEN "int_lambda"
                      ELSE "_unstructure_identity"
      [] OTHER -> "unstructure"

\* converter._structure_func.dispatch(t)
structure_dispatch(converter, t) ==
    CASE t = "datetime" -> "datetime_fromtimestamp"
      [] t = "int" -> "_structure_call"
      [] t \in converter.recursive -> RecursionError
      [] t \in {"A", "B"} -> "structure_typeddict"
      [] OTHER -> "structure"

\* find_structure_handler(a, t, converter): no attrs converter on a field
\* of a TypedDict, so it is the dispatch, or converter.structure without
\* a type; a dispatch that raises RecursionError falls back to
\* converter.structure.
find_structure_handler(a, t, converter) ==
    IF t # None
    THEN IF structure_dispatch(converter, t) = RecursionError
         THEN "structure"
         ELSE structure_dispatch(converter, t)
    ELSE "structure"

Ok(v) == [ok |-> TRUE, val |-> v]
Raise(e) == [ok |-> FALSE, val |-> [kind |-> e, n |-> 0]]

\* An unstructure handler applied to a value.
ApplyUnstructure(handler, v) ==
    CASE handler = "_unstructure_identity" -> Ok(v)
      [] handler = "int_lambda" -> Ok(v)
      [] handler = "datetime_timestamp" ->
            IF v.kind = "datetime" THEN Ok(IntV(v.n))
            ELSE Raise("AttributeError")
      [] handler = "unstruct_hook" -> Ok(StrV(v.n))
      [] OTHER -> \* converter.unstructure: by the value's own class
            IF v.kind = "datetime" THEN Ok(IntV(v.n)) ELSE Ok(v)

\* A structure handler applied to a value (and the field's type t).
ApplyStructure(handler, v, t) ==
    CASE handler = "_structure_call" -> \* t(v), here int(v)
            IF v.kind \in {"int", "str"} THEN Ok(IntV(v.n))
            ELSE IF v.kind = "bad" THEN Raise("ValueError")
            ELSE Raise("TypeError")
      [] handler = "datetime_fromtimestamp" ->
            IF v.kind = "int" THEN Ok(DtV(v.n)) ELSE Raise("TypeError")
      [] handler = "struct_hook" ->
            IF v.kind = "bad" THEN Raise("ValueError") ELSE Ok(StrV(v.n))
      [] OTHER -> \* converter.structure(v, t)
            IF t = "datetime"
            THEN IF v.kind = "int" THEN Ok(DtV(v.n)) ELSE Raise("TypeError")
            ELSE IF v.kind \in {"int", "str"} THEN Ok(IntV(v.n))
            ELSE Raise("ValueError")

\* ------------------------------------------------------------ overrides

\* AttributeOverride, and the neutral one.
neutral ==
    [omit |-> FALSE, rename |-> None, unstruct_hook |-> None,
     struct_hook |-> None]

Overrides ==
    [omit : BOOLEAN, rename : {None, Renamed},
     unstruct_hook : {None, "unstruct_hook"},
     struct_hook : {None, "struct_hook"}]

\* kwargs.get(attr_name, neutral)
KwargsGet(kwargs, attr_name) ==
    IF attr_name \in DOMAIN kwargs THEN kwargs[attr_name] ELSE neutral

\* ------------------------------------------------------------ record types

\* A record type: its annotations in order, its __required_keys__, and the
\* binding of its type variable T ("not_generic", "unbound", or the
\* argument it is parameterised with).
Attribute(name, type) == [name |-> name, type |-> type]

\* adapted_fields(cls): one Attribute per annotation, in order.
adapted_fields(cl) ==
    [i \in 1..Len(cl.annotations) |->
        Attribute(cl.annotations[i].name, cl.annotations[i].type)]

\* generate_mapping(cl, {}): the substitution of T, when T is bound.
generate_mapping(cl) ==
    IF cl.binding \in {"int", "datetime"} THEN [T |-> cl.binding]
    ELSE [x \in {} |-> None]

DeclaredNames(n) == {FieldNames[i] : i \in 1..n}

RecordTypes ==
    {[annotations |-> [i \in 1..n |-> [name |-> FieldNames[i], type |-> ts[i]]],
      required_keys |-> req,
      binding |-> b] :
        <<n, ts, req, b>> \in
          {<<n, ts, req, b>> \in
              UNION {{n} \X [1..n -> {"int", "datetime", "T"}]
                         \X (SUBSET DeclaredNames(n))
                         \X {"not_generic", "unbound", "int", "datetime"}
                     : n \in 0..Len(FieldNames)} :
              (b # "not_generic") <=> (\E i \in 1..n : ts[i] = "T")}}

\* ------------------------------------------------------------ unstructure

\* The handler of one attribute as both loops of make_dict_unstructure_fn
\* resolve it: a TypeVar is substituted from the mapping, or left to
\* converter.unstructure when unbound; any other type is dispatched.
unstructure_handler(cl, converter, a) ==
    LET mapping == generate_mapping(cl)
    IN  IF a.type = "T"
        THEN IF "T" \in DOMAIN mapping
             THEN unstructure_dispatch(converter, mapping["T"])
             ELSE "unstructure"
        ELSE unstructure_dispatch(converter, a.type)

\* Mutant of short_circuit: the loop does not look at the overrides.
short_circuit_ignoring_overrides(cl, converter, kwargs) ==
    LET attrs == adapted_fields(cl)
    IN  \A i \in 1..Len(attrs) :
            unstructure_handler(cl, converter, attrs[i])
                = "_unstructure_identity"

\* The first loop: it ends without a break when no attribute has an
\* override and every handler is converter._unstructure_identity.
short_circuit(cl, converter, kwargs) ==
    LET attrs == adapted_fields(cl)
    IN  \A i \in 1..Len(attrs) :
            /\ KwargsGet(kwargs, attrs[i].name) = neutral
            /\ unstructure_handler(cl, converter, attrs[i])
                  = "_unstructure_identity"

\* The statement emitted for a converted attribute:
\*   res['kn'] = handler(instance['attr_name'])            (required)
\*   if 'kn' in instance: res['kn'] = handler(instance['attr_name'])
unstructure_line(attr_name, kn, handler, attr_required) ==
    [guard |-> IF attr_required THEN None ELSE kn,
     target |-> kn, source |-> attr_name, handler |-> handler]

\* The second loop, from attribute i on: the emitted lines.
RECURSIVE unstructure_lines(_, _, _, _)
unstructure_lines(cl, converter, kwargs, i) ==
    LET attrs == adapted_fields(cl)
    IN  IF i > Len(attrs) THEN <<>>
        ELSE
        LET a == attrs[i]
            attr_name == a.name
            override == KwargsGet(kwargs, attr_name)
            kn == IF override.rename = None THEN attr_name
                  ELSE override.rename
            attr_required == attr_name \in cl.required_keys
            handler == IF override.unstruct_hook # None
                       THEN override.unstruct_hook
                       ELSE unstructure_handler(cl, converter, a)
            rest == unstructure_lines(cl, converter, kwargs, i + 1)
        IN  IF override.omit THEN rest
            ELSE IF handler = "_unstructure_identity" THEN rest
            ELSE <<unstructure_line(attr_name, kn, handler, attr_required)>>
                    \o rest

\* make_dict_unstructure_fn(cl, converter, **kwargs): the converter's
\* identity handler, or the generated function.
make_dict_unstructure_fn(cl, converter, kwargs) ==
    IF short_circuit(cl, converter, kwargs)
    THEN [kind |-> "_unstructure_identity", lines |-> <<>>]
    ELSE [kind |-> "generated",
          lines |-> unstructure_lines(cl, converter, kwargs, 1)]

\* Mutant of instance_copy: "res = instance", no copy.
instance_alias(heap) == [ref |-> "arg", heap |-> heap]

\* Objects: the argument of a call, and the dict a copy() allocates.
\* "res = instance.copy()"
instance_copy(heap) ==
    [ref |-> "copy", heap |-> [heap EXCEPT !["copy"] = heap["arg"]]]

NoError == [kind |-> None, n |-> 0]

\* What a call leaves: whether it raised, the exception and the attribute
\* whose statement raised it, the returned object and its contents, the
\* argument's contents afterwards, the attributes whose handler ran, and
\* (detailed validation) the collected errors.
Outcome(raised, exc, at, ref, heap, calls, errors) ==
    [raised |-> raised, exc |-> exc, at |-> at,
     obj |-> IF raised THEN None ELSE ref,
     value |-> IF raised THEN [x \in {} |-> NoError] ELSE heap[ref],
     arg |-> heap["arg"], calls |-> calls, errors |-> errors]

\* The statements of the generated unstructure function from line i on.
RECURSIVE run_unstructure_lines(_, _, _, _, _)
run_unstructure_lines(lines, i, ref, heap, calls) ==
    IF i > Len(lines)
    THEN Outcome(FALSE, NoError, None, ref, heap, calls, <<>>) \* return res
    ELSE
    LET l == lines[i]
        instance == heap["arg"]
    IN  IF l.guard # None /\ l.guard \notin DOMAIN instance
        THEN run_unstructure_lines(lines, i + 1, ref, heap, calls)
        ELSE IF l.source \notin DOMAIN instance
        THEN Outcome(TRUE, [kind |-> "KeyError", n |-> 0], l.source,
                     ref, heap, calls, <<>>)
        ELSE
        LET r == ApplyUnstructure(l.handler, instance[l.source])
        IN  IF ~r.ok
            THEN Outcome(TRUE, r.val, l.source, ref, heap,
                         Append(calls, l.source), <<>>)
            ELSE run_unstructure_lines(
                     lines, i + 1, ref,
                     [heap EXCEPT ![ref] = DictSet(heap[ref], l.target, r.val)],
                     Append(calls, l.source))

\* Calling what make_dict_unstructure_fn returned on an instance.
call_unstructure(fn, instance) ==
    LET heap == [arg |-> instance, copy |-> instance]
    IN  IF fn.kind = "_unstructure_identity"
        THEN Outcome(FALSE, NoError, None, "arg", heap, <<>>, <<>>)
        ELSE LET c == instance_copy(heap)
             IN  run_unstructure_lines(fn.lines, 1, c.ref, c.heap, <<>>)

\* ------------------------------------------------------------ structure

\* Mutant of structure_type: the type variable is left unsubstituted.
structure_type_unsubstituted(cl, a) == a.type

\* "t = a.type; if isinstance(t, TypeVar): t = mapping.get(t.__name__, t)"
structure_type(cl, a) ==
    LET mapping == generate_mapping(cl)
    IN  IF a.type = "T" /\ "T" \in DOMAIN mapping THEN mapping["T"]
        ELSE a.type

\* A statement of the generated structure function:
\*   [if 'guard' in o:] [try:] res['target'] = handler(o['source'][, type])
\*   [except Exception as e: e.__notes__ += [... @ attribute note];
\*                           errors.append(e)]
\* emitted for attribute attr.
structure_line(attr, guard, target, source, handler, type, try, note) ==
    [attr |-> attr, guard |-> guard, target |-> target, source |-> source,
     handler |-> handler, type |-> type, try |-> try, note |-> note]

\* The detailed-validation loop, from attribute i on.
RECURSIVE detailed_lines(_, _, _, _)
detailed_lines(cl, converter, kwargs, i) ==
    LET attrs == adapted_fields(cl)
    IN  IF i > Len(attrs) THEN <<>>
        ELSE
        LET a == attrs[i]
            an == a.name
            attr_required == an \in cl.required_keys
            override == KwargsGet(kwargs, an)
            t == structure_type(cl, a)
            handler == IF override.struct_hook # None
                       THEN override.struct_hook
                       ELSE find_structure_handler(a, t, converter)
            kn == IF override.rename = None THEN an ELSE override.rename
            rest == detailed_lines(cl, converter, kwargs, i + 1)
        IN  IF override.omit THEN rest
            ELSE <<structure_line(an, IF attr_required THEN None ELSE kn,
                                  an, kn, handler, t, TRUE, an)>> \o rest

\* Fast mode, first loop (required attributes), from attribute i on.
RECURSIVE fast_required_lines(_, _, _, _)
fast_required_lines(cl, converter, kwargs, i) ==
    LET attrs == adapted_fields(cl)
    IN  IF i > Len(attrs) THEN <<>>
        ELSE
        LET a == attrs[i]
            an == a.name
            attr_required == an \in cl.required_keys
            override == KwargsGet(kwargs, an)
            t == structure_type(cl, a)
            handler == IF t # None THEN structure_dispatch(converter, t)
                       ELSE "structure"
            kn == IF override.rename = None THEN an ELSE override.rename
            rest == fast_required_lines(cl, converter, kwargs, i + 1)
        IN  IF override.omit THEN rest
            ELSE IF ~attr_required THEN rest
            ELSE <<structure_line(an, None, kn, kn, handler, t, FALSE, None)>>
                    \o rest

\* Fast mode, second loop (the non_required attributes), from attribute
\* i on.
RECURSIVE fast_optional_lines(_, _, _, _)
fast_optional_lines(cl, converter, kwargs, i) ==
    LET attrs == adapted_fields(cl)
    IN  IF i > Len(attrs) THEN <<>>
        ELSE
        LET a == attrs[i]
            an == a.name
            attr_required == an \in cl.required_keys
            override == KwargsGet(kwargs, an)
            t == structure_type(cl, a)
            handler == IF t # None THEN structure_dispatch(converter, t)
                       ELSE "structure"
            ian == an
            kn == IF override.rename = None THEN an ELSE override.rename
            rest == fast_optional_lines(cl, converter, kwargs, i + 1)
        IN  IF override.omit \/ attr_required THEN rest
            ELSE <<structure_line(an, kn, ian, kn, handler, t, FALSE, None)>>
                    \o rest

\* Whether a dispatch made while these lines were built raised
\* RecursionError: nothing in make_dict_structure_fn catches it.
dispatch_raised(lines) ==
    \E i \in 1..Len(lines) : lines[i].handler = RecursionError

\* The function generated from the lines, or the RecursionError a dispatch
\* raised on the way.
generated_structure_fn(detailed_validation, lines) ==
    IF dispatch_raised(lines)
    THEN [kind |-> RecursionError, detailed |-> detailed_validation,
          lines |-> <<>>]
    ELSE [kind |-> "generated", detailed |-> detailed_validation,
          lines |-> lines]

\* Mutant of make_dict_structure_fn: fast mode emits post_lines (the
\* optional attributes) before lines (the required ones).
make_dict_structure_fn_swapped(cl, converter, detailed_validation, kwargs) ==
    IF cl.binding = "unbound"
    THEN [kind |-> "StructureHandlerNotFoundError", param |-> "T",
          detailed |-> detailed_validation, lines |-> <<>>]
    ELSE generated_structure_fn(detailed_validation,
            IF detailed_validation
            THEN detailed_lines(cl, converter, kwargs, 1)
            ELSE fast_optional_lines(cl, converter, kwargs, 1)
                 \o fast_required_lines(cl, converter, kwargs, 1))

\* Mutant of make_dict_structure_fn: the type parameter is looked up only
\* for attributes that have no struct_hook override, so generation
\* proceeds when every attribute typed by the parameter has one.
make_dict_structure_fn_hook_first(cl, converter, detailed_validation, kwargs) ==
    LET attrs == adapted_fields(cl)
        needed == \E i \in 1..Len(attrs) :
                      /\ attrs[i].type = "T"
                      /\ KwargsGet(kwargs, attrs[i].name).struct_hook = None
    IN  IF cl.binding = "unbound" /\ needed
        THEN [kind |-> "StructureHandlerNotFoundError", param |-> "T",
              detailed |-> detailed_validation, lines |-> <<>>]
        ELSE generated_structure_fn(detailed_validation,
                IF detailed_validation
                THEN detailed_lines(cl, converter, kwargs, 1)
                ELSE fast_required_lines(cl, converter, kwargs, 1)
                     \o fast_optional_lines(cl, converter, kwargs, 1))

\* make_dict_structure_fn(cl, converter, _cattrs_detailed_validation,
\* **kwargs): raises when a type parameter of cl has no binding, else
\* returns the generated function (lines + post_lines).  The raise names
\* the parameter; it comes before any override is read.  A RecursionError
\* raised by a dispatch in the fast branch leaves the function.
make_dict_structure_fn(cl, converter, detailed_validation, kwargs) ==
    IF cl.binding = "unbound"
    THEN [kind |-> "StructureHandlerNotFoundError", param |-> "T",
          detailed |-> detailed_validation, lines |-> <<>>]
    ELSE generated_structure_fn(detailed_validation,
            IF detailed_validation
            THEN detailed_lines(cl, converter, kwargs, 1)
            ELSE fast_required_lines(cl, converter, kwargs, 1)
                 \o fast_optional_lines(cl, converter, kwargs, 1))

\* "res = o.copy()"
o_copy(heap) ==
    [ref |-> "copy", heap |-> [heap EXCEPT !["copy"] = heap["arg"]]]

\* Mutant of Noted: the exception is collected without its note.
Noted_without_note(exc, at, note) == [exc |-> exc, at |-> at, notes |-> <<>>]

\* An exception caught by a line's except clause, with the note added.
Noted(exc, at, note) == [exc |-> exc, at |-> at, notes |-> <<note>>]

\* The statements of the generated structure function from line i on,
\* then "if errors: raise ClassValidationError(..., errors, cl)" and
\* "return res".
RECURSIVE run_structure_lines(_, _, _, _, _, _)
run_structure_lines(fn, i, ref, heap, calls, errors) ==
    IF i > Len(fn.lines)
    THEN IF fn.detailed /\ errors # <<>>
         THEN Outcome(TRUE, [kind |-> "ClassValidationError", n |-> 0],
                      None, ref, heap, calls, errors)
         ELSE Outcome(FALSE, NoError, None, ref, heap, calls, errors)
    ELSE
    LET l == fn.lines[i]
        o == heap["arg"]
        present == l.source \in DOMAIN o
        r == IF present THEN ApplyStructure(l.handler, o[l.source], l.type)
             ELSE Raise("KeyError")
        called == IF present THEN Append(calls, l.attr) ELSE calls
    IN  IF l.guard # None /\ l.guard \notin DOMAIN o
        THEN run_structure_lines(fn, i + 1, ref, heap, calls, errors)
        ELSE IF r.ok
        THEN run_structure_lines(
                 fn, i + 1, ref,
                 [heap EXCEPT ![ref] = DictSet(heap[ref], l.target, r.val)],
                 called, errors)
        ELSE IF l.try
        THEN run_structure_lines(
                 fn, i + 1, ref, heap, called,
                 Append(errors, Noted(r.val, l.attr, l.note)))
        ELSE Outcome(TRUE, r.val, l.attr, ref, heap, called, errors)

\* Calling what make_dict_structure_fn returned on a mapping.
call_structure(fn, o) ==
    LET c == o_copy([arg |-> o, copy |-> o])
    IN  run_structure_lines(fn, 1, c.ref, c.heap, <<>>, <<>>)

\* ------------------------------------------------------------ the program

VARIABLES
    cl,         \* the record type
    converter,  \* the converter's registered hooks
    kwargs,     \* the overrides given to both generators
    ufn,        \* what make_dict_unstructure_fn returned, once called
    sfn,        \* what make_dict_structure_fn returned or raised
    op,         \* the last call made
    arg,        \* its argument
    ret,        \* its outcome
    orig,       \* the instance a round trip started from
    decls,      \* the record types a field's type can name
    working_set, \* already_generating.working_set
    stack,      \* the make_dict_unstructure_fn calls in progress
    signal      \* what the call that ended last returned or raised

genvars == <<decls, working_set, stack, signal>>
vars ==
    <<cl, converter, kwargs, ufn, sfn, op, arg, ret, orig, decls,
      working_set, stack, signal>>

NoFn == [kind |-> None, detailed |-> FALSE, lines |-> <<>>]
EmptyDict == [x \in {} |-> NoError]
NoOutcome ==
    [raised |-> FALSE, exc |-> NoError, at |-> None, obj |-> None,
     value |-> EmptyDict, arg |-> EmptyDict, calls |-> <<>>, errors |-> <<>>]

\* The overrides a caller gives an attribute.
OverrideChoices ==
    {ov \in Overrides :
        \/ ov = [neutral EXCEPT !.omit = TRUE]
        \/ ov = [neutral EXCEPT !.rename = Renamed]
        \/ ov = [neutral EXCEPT !.unstruct_hook = "unstruct_hook"]
        \/ ov = [neutral EXCEPT !.struct_hook = "struct_hook"]
        \/ ov = [neutral EXCEPT !.rename = Renamed,
                                !.unstruct_hook = "unstruct_hook",
                                !.struct_hook = "struct_hook"]}

\* **kwargs: overrides for some of the declared attributes.
KwargsChoices(c) ==
    UNION {[ns -> OverrideChoices] :
              ns \in SUBSET DeclaredNames(Len(c.annotations))}

\* No call has ended.
NoSignal ==
    [kind |-> "none", cl |-> None, exc |-> None, fn |-> NoFn, caught |-> {}]

Payloads == 0..MaxVal

\* The values an instance holds under a declared attribute: of its type.
FieldValues(c, a) ==
    LET t == IF a.type = "T" THEN c.binding ELSE a.type
    IN  IF t = "datetime" THEN {DtV(n) : n \in Payloads}
        ELSE {IntV(n) : n \in Payloads}

\* Instances of the record type: each declared key absent or holding a
\* value of its type, and possibly the undeclared key.
Instances(c) ==
    LET attrs == adapted_fields(c)
        TypeOf(k) == CHOOSE i \in 1..Len(attrs) : attrs[i].name = k
    IN  {d \in Dicts({DtV(n) : n \in Payloads} \cup {IntV(n) : n \in Payloads}) :
            \A k \in DOMAIN d :
                IF k \in DeclaredNames(Len(attrs))
                THEN d[k] \in FieldValues(c, attrs[TypeOf(k)])
                ELSE d[k] = IntV(0)}

\* Mappings handed to the structure function directly: each key absent,
\* or holding an unstructured value or one no handler accepts.  (A round
\* trip hands it every payload.)
Mappings == Dicts({IntV(0), BadV})

Init ==
    /\ cl \in RecordTypes
    /\ converter \in Converters
    /\ kwargs \in KwargsChoices(cl)
    /\ ufn = NoFn
    /\ sfn = NoFn
    /\ op = "none"
    /\ arg = EmptyDict
    /\ ret = NoOutcome
    /\ orig = EmptyDict
    /\ decls = <<>>
    /\ working_set = {}
    /\ stack = <<>>
    /\ signal = NoSignal

\* No field of these types names a record type: the call nests no other,
\* and its type has left working_set when it returns.
MakeUnstructure ==
    /\ ufn = NoFn
    /\ op = "none"
    /\ ufn' = make_dict_unstructure_fn(cl, converter, kwargs)
    /\ UNCHANGED <<cl, converter, kwargs, sfn, op, arg, ret, orig>>
    /\ UNCHANGED genvars

\* The hooks are generated in the order the tests register them.
MakeStructure(detailed_validation) ==
    /\ ufn # NoFn
    /\ sfn = NoFn
    /\ op = "none"
    /\ sfn' = make_dict_structure_fn(cl, converter, detailed_validation, kwargs)
    /\ UNCHANGED <<cl, converter, kwargs, ufn, op, arg, ret, orig>>
    /\ UNCHANGED genvars

\* unstructured = fn(instance)
CallUnstructure ==
    /\ ufn # NoFn
    /\ op = "none"
    /\ \E instance \in Instances(cl) :
          /\ arg' = instance
          /\ ret' = call_unstructure(ufn, instance)
    /\ op' = "unstructure"
    /\ UNCHANGED <<cl, converter, kwargs, ufn, sfn, orig>>
    /\ UNCHANGED genvars

\* structured = fn(o, cl)
CallStructure ==
    /\ sfn.kind = "generated"
    /\ op = "none"
    /\ \E o \in Mappings :
          /\ arg' = o
          /\ ret' = call_structure(sfn, o)
    /\ op' = "structure"
    /\ UNCHANGED <<cl, converter, kwargs, ufn, sfn, orig>>
    /\ UNCHANGED genvars

\* restructured = structure_fn(unstructured, cl)
StructureUnstructured ==
    /\ sfn.kind = "generated"
    /\ op = "unstructure"
    /\ ~ret.raised
    /\ op' = "roundtrip"
    /\ orig' = arg
    /\ arg' = ret.value
    /\ ret' = call_structure(sfn, ret.value)
    /\ UNCHANGED <<cl, converter, kwargs, ufn, sfn>>
    /\ UNCHANGED genvars

Next ==
    \/ MakeUnstructure
    \/ \E d \in BOOLEAN : MakeStructure(d)
    \/ CallUnstructure
    \/ CallStructure
    \/ StructureUnstructured

Spec == Init /\ [][Next]_vars

\* ------------------------------------------- generation, call by call

\* Record types whose fields may name each other.  The converter's
\* dispatch of a field typed by one of them generates that type's function
\* with a nested make_dict_unstructure_fn(t, converter) call.
TypeNames == {"A", "B"}
FieldTypes == {"int", "datetime"} \cup TypeNames

\* The declarations of one record type: every key required, not generic;
\* resolvable is whether get_annotations(cls, eval_str=True) can evaluate
\* its annotations.
Declarations(c) ==
    UNION {{[name |-> c,
             annotations |->
                 [i \in 1..n |-> [name |-> FieldNames[i], type |-> ts[i]]],
             required_keys |-> DeclaredNames(n),
             binding |-> "not_generic",
             resolvable |-> r] :
                ts \in [1..n -> FieldTypes], r \in BOOLEAN} :
           n \in 0..Len(FieldNames)}

\* The record types the fields of c name.
Refs(d, c) ==
    IF d[c].resolvable
    THEN {d[c].annotations[i].type : i \in 1..Len(d[c].annotations)}
            \cap TypeNames
    ELSE {}

RECURSIVE ReachableFrom(_, _, _)
ReachableFrom(d, S, n) ==
    IF n = 0 THEN S
    ELSE ReachableFrom(d, S \cup UNION {Refs(d, c) : c \in S}, n - 1)

Descendants(d, c) == ReachableFrom(d, Refs(d, c), Cardinality(TypeNames))

\* The record types whose type graph is self-referential: generating
\* their structure function leads back to a type being generated.
SelfReferential(d) ==
    {c \in TypeNames :
        \E x \in Descendants(d, c) \cup {c} : x \in Descendants(d, x)}

\* The overrides given to an attribute in a generation call: the ones
\* the generator of that direction reads before it dispatches.
GenOverrideChoices(hook) ==
    {ov \in OverrideChoices :
        \/ ov = [neutral EXCEPT !.omit = TRUE]
        \/ ov = [neutral EXCEPT ![hook] = hook]}

GenKwargs(c, hook) ==
    UNION {[ns -> GenOverrideChoices(hook)] :
              ns \in SUBSET DeclaredNames(Len(c.annotations))}

NoKwargs == [x \in {} |-> neutral]
NoType ==
    [name |-> None, annotations |-> <<>>, required_keys |-> {},
     binding |-> "not_generic", resolvable |-> TRUE]

\* A make_dict_unstructure_fn call in progress: its type, its overrides,
\* the loop it is in and the attribute it is at, the lines emitted, and
\* the attributes whose dispatch raised RecursionError.
Frame(c, kw) ==
    [cl |-> c, kwargs |-> kw, pc |-> "first_loop", i |-> 1,
     lines |-> <<>>, caught |-> {}]

Top(st) == st[Len(st)]
Pop(st) == SubSeq(st, 1, Len(st) - 1)
SetTop(st, f) == [st EXCEPT ![Len(st)] = f]

\* How a call for type c ended.
Raised(c, e) ==
    [kind |-> "raise", cl |-> c, exc |-> e, fn |-> NoFn, caught |-> {}]
Returned(c, fn, caught) ==
    [kind |-> "return", cl |-> c, exc |-> None, fn |-> fn,
     caught |-> caught]

\* Mutant of generation_entry: the membership test sits inside the try,
\* so the finally clause removes the type when the test raises.
generation_entry_check_in_try(c, kw, ws, st) ==
    IF ~decls[c].resolvable
    THEN [working_set |-> ws, stack |-> st,
          signal |-> Raised(c, "NameError")]
    ELSE IF c \in ws
    THEN [working_set |-> ws \ {c}, stack |-> st,
          signal |-> Raised(c, RecursionError)]
    ELSE [working_set |-> ws \cup {c}, stack |-> Append(st, Frame(c, kw)),
          signal |-> NoSignal]

\* make_dict_unstructure_fn up to its try: adapted_fields raises what
\* get_annotations raises; a type already in working_set raises
\* RecursionError and leaves the set alone; otherwise the type is added.
generation_entry(c, kw, ws, st) ==
    IF ~decls[c].resolvable
    THEN [working_set |-> ws, stack |-> st,
          signal |-> Raised(c, "NameError")]
    ELSE IF c \in ws
    THEN [working_set |-> ws, stack |-> st,
          signal |-> Raised(c, RecursionError)]
    ELSE [working_set |-> ws \cup {c}, stack |-> Append(st, Frame(c, kw)),
          signal |-> NoSignal]

\* Leaving the try, by return or by an exception passing through:
\* "finally: working_set.remove(cl)".
generation_exit(sig, ws, st) ==
    [working_set |-> ws \ {Top(st).cl}, stack |-> Pop(st), signal |-> sig]

Becomes(r) ==
    /\ working_set' = r.working_set
    /\ stack' = r.stack
    /\ signal' = r.signal

\* The handler a dispatch of a record type yields: what the nested call
\* returned, or converter.unstructure when it raised RecursionError.
dispatched_handler(sig) ==
    IF sig.kind = "raise" THEN "unstructure"
    ELSE IF sig.fn.kind = "_unstructure_identity"
    THEN "_unstructure_identity"
    ELSE "unstructure_typeddict"

\* "is_identity = handler == converter._unstructure_identity;
\*  if not is_identity: break"
first_loop_step(f, handler) ==
    IF handler = "_unstructure_identity" THEN [f EXCEPT !.i = @ + 1]
    ELSE [f EXCEPT !.pc = "second_loop", !.i = 1]

\* The second loop's use of a resolved handler: an identity handler emits
\* nothing, any other is bound in a line.
second_loop_step(f, a, handler) ==
    LET override == KwargsGet(f.kwargs, a.name)
        kn == IF override.rename = None THEN a.name ELSE override.rename
        attr_required == a.name \in decls[f.cl].required_keys
    IN  IF handler = "_unstructure_identity" THEN [f EXCEPT !.i = @ + 1]
        ELSE [f EXCEPT !.i = @ + 1,
                       !.lines = Append(@, unstructure_line(a.name, kn,
                                            handler, attr_required))]

\* The frame once a dispatch has raised RecursionError, or not.
Caught(f, a, sig) ==
    IF sig.kind = "raise" THEN [f EXCEPT !.caught = @ \cup {a.name}] ELSE f

InitGen ==
    /\ decls \in {d \in [TypeNames -> UNION {Declarations(c) : c \in TypeNames}] :
                     \A c \in TypeNames : d[c].name = c}
    /\ converter = [int_hook |-> FALSE, recursive |-> SelfReferential(decls)]
    /\ cl = NoType
    /\ kwargs = NoKwargs
    /\ ufn = NoFn
    /\ sfn = NoFn
    /\ op = "none"
    /\ arg = EmptyDict
    /\ ret = NoOutcome
    /\ orig = EmptyDict
    /\ working_set = {}
    /\ stack = <<>>
    /\ signal = NoSignal

\* make_dict_unstructure_fn(c, converter, **kw), called from outside, any
\* number of times.
GenCall ==
    /\ stack = <<>>
    /\ sfn = NoFn
    /\ \E c \in TypeNames :
          \E kw \in GenKwargs(decls[c], "unstruct_hook") :
              /\ cl' = decls[c]
              /\ kwargs' = kw
              /\ Becomes(generation_entry(c, kw, working_set, stack))
    /\ UNCHANGED <<converter, ufn, sfn, op, arg, ret, orig, decls>>

\* One iteration of the short-circuit loop, up to the dispatch of a
\* record type; past the last attribute, the return of the identity.
FirstLoop ==
    /\ stack # <<>>
    /\ signal.kind = "none"
    /\ Top(stack).pc = "first_loop"
    /\ LET f == Top(stack)
           attrs == adapted_fields(decls[f.cl])
       IN  IF f.i > Len(attrs)
           THEN Becomes(generation_exit(
                    Returned(f.cl, [kind |-> "_unstructure_identity",
                                    lines |-> <<>>], f.caught),
                    working_set, stack))
           ELSE IF KwargsGet(f.kwargs, attrs[f.i].name) # neutral
           THEN /\ stack' = SetTop(stack, [f EXCEPT !.pc = "second_loop",
                                                    !.i = 1])
                /\ UNCHANGED <<working_set, signal>>
           ELSE IF attrs[f.i].type \in TypeNames
           THEN Becomes(generation_entry(attrs[f.i].type, NoKwargs,
                                         working_set, stack))
           ELSE /\ stack' = SetTop(stack, first_loop_step(f,
                        unstructure_handler(decls[f.cl], converter,
                                            attrs[f.i])))
                /\ UNCHANGED <<working_set, signal>>
    /\ UNCHANGED <<cl, converter, kwargs, ufn, sfn, op, arg, ret, orig, decls>>

\* The dispatch of the short-circuit loop has ended: RecursionError is
\* caught, any other exception passes through the finally clause.
FirstLoopDispatched ==
    /\ stack # <<>>
    /\ signal.kind # "none"
    /\ Top(stack).pc = "first_loop"
    /\ LET f == Top(stack)
           a == adapted_fields(decls[f.cl])[f.i]
       IN  IF signal.kind = "raise" /\ signal.exc # RecursionError
           THEN Becomes(generation_exit(Raised(f.cl, signal.exc),
                                        working_set, stack))
           ELSE /\ stack' = SetTop(stack,
                        first_loop_step(Caught(f, a, signal),
                                        dispatched_handler(signal)))
                /\ signal' = NoSignal
                /\ UNCHANGED working_set
    /\ UNCHANGED <<cl, converter, kwargs, ufn, sfn, op, arg, ret, orig, decls>>

\* One iteration of the second loop, up to the dispatch of a record
\* type; past the last attribute, the return of the compiled function.
SecondLoop ==
    /\ stack # <<>>
    /\ signal.kind = "none"
    /\ Top(stack).pc = "second_loop"
    /\ LET f == Top(stack)
           attrs == adapted_fields(decls[f.cl])
       IN  IF f.i > Len(attrs)
           THEN Becomes(generation_exit(
                    Returned(f.cl, [kind |-> "generated",
                                    lines |-> f.lines], f.caught),
                    working_set, stack))
           ELSE
           LET a == attrs[f.i]
               override == KwargsGet(f.kwargs, a.name)
           IN  IF override.omit
               THEN /\ stack' = SetTop(stack, [f EXCEPT !.i = @ + 1])
                    /\ UNCHANGED <<working_set, signal>>
               ELSE IF override.unstruct_hook # None
               THEN /\ stack' = SetTop(stack, second_loop_step(f, a,
                                            override.unstruct_hook))
                    /\ UNCHANGED <<working_set, signal>>
               ELSE IF a.type \in TypeNames
               THEN Becomes(generation_entry(a.type, NoKwargs,
                                             working_set, stack))
               ELSE /\ stack' = SetTop(stack, second_loop_step(f, a,
                            unstructure_handler(decls[f.cl], converter, a)))
                    /\ UNCHANGED <<working_set, signal>>
    /\ UNCHANGED <<cl, converter, kwargs, ufn, sfn, op, arg, ret, orig, decls>>

\* The dispatch of the second loop has ended.
SecondLoopDispatched ==
    /\ stack # <<>>
    /\ signal.kind # "none"
    /\ Top(stack).pc = "second_loop"
    /\ LET f == Top(stack)
           a == adapted_fields(decls[f.cl])[f.i]
       IN  IF signal.kind = "raise" /\ signal.exc # RecursionError
           THEN Becomes(generation_exit(Raised(f.cl, signal.exc),
                                        working_set, stack))
           ELSE /\ stack' = SetTop(stack,
                        second_loop_step(Caught(f, a, signal), a,
                                         dispatched_handler(signal)))
                /\ signal' = NoSignal
                /\ UNCHANGED working_set
    /\ UNCHANGED <<cl, converter, kwargs, ufn, sfn, op, arg, ret, orig, decls>>

\* make_dict_structure_fn(c, converter, _cattrs_detailed_validation,
\* **kw), called from outside for types whose annotations all evaluate.
\* It reads and writes nothing the other generator does, so one call from
\* the start shows all it does.
GenStructure(detailed_validation) ==
    /\ stack = <<>>
    /\ signal = NoSignal
    /\ sfn = NoFn
    /\ \A c \in TypeNames : decls[c].resolvable
    /\ \E c \in TypeNames :
          \E kw \in GenKwargs(decls[c], "struct_hook") :
              /\ cl' = decls[c]
              /\ kwargs' = kw
              /\ sfn' = make_dict_structure_fn(decls[c], converter,
                                               detailed_validation, kw)
    /\ UNCHANGED <<converter, ufn, op, arg, ret, orig, decls>>
    /\ UNCHANGED <<working_set, stack, signal>>

NextGen ==
    \/ GenCall
    \/ FirstLoop
    \/ FirstLoopDispatched
    \/ SecondLoop
    \/ SecondLoopDispatched
    \/ \E d \in BOOLEAN : GenStructure(d)

SpecGen == InitGen /\ [][NextGen]_vars

\* ------------------------------------------------------------ claims

\* The declared attribute names, and the attribute of a name.
Declared == {cl.annotations[i].name : i \in 1..Len(cl.annotations)}
AttrOf(k) ==
    LET attrs == adapted_fields(cl)
    IN  attrs[CHOOSE i \in 1..Len(attrs) : attrs[i].name = k]
NoOverrides == DOMAIN kwargs = {}
\* The key of attribute k in the plain mapping.
KeyOf(k) ==
    IF KwargsGet(kwargs, k).rename = None THEN k
    ELSE KwargsGet(kwargs, k).rename
\* The instance holds every required key.
Complete(d) == cl.required_keys \subseteq DOMAIN d

\* C1: with no overrides, structuring what unstructuring an instance
\* returned gives a mapping equal to the instance, in fast and in
\* detailed-validation mode, undeclared keys included.
C1_RoundTrip ==
    (op = "roundtrip" /\ NoOverrides /\ Complete(orig)) =>
        /\ ~ret.raised
        /\ ret.value = orig
        /\ \A k \in DOMAIN orig \ Declared :
              /\ k \in DOMAIN arg /\ arg[k] = orig[k]
              /\ k \in DOMAIN ret.value /\ ret.value[k] = orig[k]

\* C1 witness: a two-field instance with an undeclared key and a datetime
\* converted on the way out comes back equal, in fast mode.
C1_Witness ==
    /\ op = "roundtrip" /\ NoOverrides /\ Complete(orig)
    /\ Len(cl.annotations) = 2 /\ cl.required_keys # Declared
    /\ Renamed \in DOMAIN orig
    /\ arg # orig
    /\ ~sfn.detailed
    /\ ~ret.raised /\ ret.value = orig

\* C1 witness, generic: the same through a bound type variable, in
\* detailed-validation mode.
C1_WitnessGeneric ==
    /\ op = "roundtrip" /\ NoOverrides /\ Complete(orig)
    /\ cl.binding = "datetime" /\ sfn.detailed
    /\ arg # orig
    /\ ~ret.raised /\ ret.value = orig

\* C2: the unstructured mapping never holds the key of an attribute given
\* override(omit=True).
C2_OmitAbsentFromUnstructured ==
    (op = "unstructure" /\ ~ret.raised) =>
        \A k \in Declared :
            KwargsGet(kwargs, k).omit => k \notin DOMAIN ret.value

\* C3: an attribute k given override(rename="r") and held by the instance
\* is unstructured to key "r", holding the converted value, and key k is
\* absent from the result.
C3_RenameUnstructure ==
    (op = "unstructure" /\ ~ret.raised) =>
        \A k \in Declared \cap DOMAIN arg :
            KwargsGet(kwargs, k).rename # None =>
                LET ov == KwargsGet(kwargs, k)
                    h == IF ov.unstruct_hook # None THEN ov.unstruct_hook
                         ELSE unstructure_handler(cl, converter, AttrOf(k))
                IN  /\ ov.rename \in DOMAIN ret.value
                    /\ ret.value[ov.rename] = ApplyUnstructure(h, arg[k]).val
                    /\ k \notin DOMAIN ret.value

\* The handler make_dict_structure_fn is to bind to attribute k: the
\* override's struct_hook, else the registry's dispatch for its type.
StructHandlerOf(k) ==
    LET ov == KwargsGet(kwargs, k)
    IN  IF ov.struct_hook # None THEN ov.struct_hook
        ELSE structure_dispatch(converter, structure_type(cl, AttrOf(k)))

\* C4: an attribute k given override(rename="r") is structured from key
\* "r": the result holds, under k, the handler's result for the value at
\* "r", in fast and in detailed-validation mode, k required or optional.
\* (Stated for overrides that give no struct_hook, so that the handler is
\* the registry's; forced hooks are C5's.)
C4_RenameStructure ==
    (op = "structure" /\ ~ret.raised) =>
        \A k \in Declared :
            LET ov == KwargsGet(kwargs, k)
            IN  (ov.rename # None /\ ov.struct_hook = None
                    /\ ov.rename \in DOMAIN arg) =>
                    /\ k \in DOMAIN ret.value
                    /\ ret.value[k] =
                          ApplyStructure(StructHandlerOf(k), arg[ov.rename],
                                         structure_type(cl, AttrOf(k))).val

\* C5: an attribute whose override gives an explicit hook is converted by
\* that hook, not by the registry's dispatch: every statement either
\* generator emits for it calls the hook, and a structure call stores the
\* hook's result under the attribute.
C5_ForcedHook ==
    /\ \A i \in 1..Len(ufn.lines) :
          LET ov == KwargsGet(kwargs, ufn.lines[i].source)
          IN  ov.unstruct_hook # None =>
                  ufn.lines[i].handler = ov.unstruct_hook
    /\ \A i \in 1..Len(sfn.lines) :
          LET ov == KwargsGet(kwargs, sfn.lines[i].attr)
          IN  ov.struct_hook # None => sfn.lines[i].handler = ov.struct_hook
    /\ (op = "structure" /\ ~ret.raised) =>
          \A k \in Declared :
              LET ov == KwargsGet(kwargs, k)
              IN  (ov.struct_hook # None /\ ov.rename = None
                      /\ k \in DOMAIN arg) =>
                      ret.value[k] =
                          ApplyStructure(ov.struct_hook, arg[k],
                                         structure_type(cl, AttrOf(k))).val

\* The attributes a structure function handles (those not omitted), in
\* declaration order.
RECURSIVE HandledFrom(_)
HandledFrom(i) ==
    IF i > Len(cl.annotations) THEN <<>>
    ELSE IF KwargsGet(kwargs, cl.annotations[i].name).omit
         THEN HandledFrom(i + 1)
         ELSE <<cl.annotations[i].name>> \o HandledFrom(i + 1)
Handled == HandledFrom(1)

IsRequired(k) == k \in cl.required_keys
\* Attribute k is attempted on input o: it is required, or its key is there.
Attempted(k, o) == IsRequired(k) \/ KeyOf(k) \in DOMAIN o
\* Attribute k's handler h fails on input o: its key is missing, or the
\* handler raises on the value.
FailsWith(k, h, o) ==
    /\ Attempted(k, o)
    /\ \/ KeyOf(k) \notin DOMAIN o
       \/ ~ApplyStructure(h, o[KeyOf(k)], structure_type(cl, AttrOf(k))).ok
\* The handler of attribute k is invoked on input o.
Invoked(k, o) == KeyOf(k) \in DOMAIN o

\* C6: in detailed-validation mode every attribute that is not omitted is
\* attempted in declaration order; with n >= 1 failing attributes the call
\* raises one ClassValidationError holding exactly n errors, one per
\* failing attribute, each noted with its own attribute, after all were
\* attempted; with none failing it returns the populated copy.
C6_DetailedAggregation ==
    (op \in {"structure", "roundtrip"} /\ sfn.detailed) =>
        LET Fails(k) == FailsWith(k, StructHandlerOf(k), arg)
            failing == SelectSeq(Handled, Fails)
            invoked == SelectSeq(Handled, LAMBDA k : Invoked(k, arg))
        IN  /\ ret.calls = invoked
            /\ ret.raised <=> failing # <<>>
            /\ ret.raised =>
                  /\ ret.exc.kind = "ClassValidationError"
                  /\ Len(ret.errors) = Len(failing)
                  /\ \A i \in 1..Len(failing) :
                        /\ ret.errors[i].at = failing[i]
                        /\ ret.errors[i].notes = <<failing[i]>>
            /\ ~ret.raised =>
                  /\ ret.errors = <<>>
                  /\ DOMAIN ret.value =
                        DOMAIN arg \cup
                        {Handled[i] : i \in {j \in 1..Len(Handled) :
                                                Invoked(Handled[j], arg)}}
                  /\ \A i \in 1..Len(Handled) :
                        Invoked(Handled[i], arg) =>
                            ret.value[Handled[i]] =
                                ApplyStructure(
                                    StructHandlerOf(Handled[i]),
                                    arg[KeyOf(Handled[i])],
                                    structure_type(cl, AttrOf(Handled[i]))).val

\* C6 witness: two attributes fail in one detailed-validation call, and
\* the aggregate holds both errors, each noted with its attribute.
C6_Witness ==
    /\ op = "structure" /\ sfn.detailed
    /\ ret.raised /\ ret.exc.kind = "ClassValidationError"
    /\ Len(ret.errors) = 2
    /\ ret.errors[1].notes = <<"a">> /\ ret.errors[2].notes = <<"b">>
    /\ ret.errors[1].exc.kind = "KeyError"
    /\ ret.calls = <<"b">>

\* C6 witness, success: a detailed-validation call in which nothing fails
\* returns the populated copy.
C6_WitnessSuccess ==
    /\ op = "structure" /\ sfn.detailed /\ ~ret.raised
    /\ ret.calls = <<"a", "b">> /\ ret.value # arg

\* The handler bound to attribute k in fast mode: the registry's dispatch.
FastHandlerOf(k) ==
    structure_dispatch(converter, structure_type(cl, AttrOf(k)))
FastFails(k) == FailsWith(k, FastHandlerOf(k), arg)
\* The exception attribute k's conversion raises on input o, as raised.
OwnException(k, o) ==
    IF KeyOf(k) \notin DOMAIN o THEN Raise("KeyError").val
    ELSE ApplyStructure(FastHandlerOf(k), o[KeyOf(k)],
                        structure_type(cl, AttrOf(k))).val
\* The position of the first element of seq satisfying Test.
FirstIndex(seq, Test(_)) ==
    CHOOSE i \in 1..Len(seq) :
        Test(seq[i]) /\ \A j \in 1..(i - 1) : ~Test(seq[j])

\* C7 as claimed: in fast mode, when the conversions of several attributes
\* of the input fail (every handled key being there), the call raises the
\* unmodified exception of the failing attribute first in declaration
\* order, and the handler of no later-declared attribute runs.
C7_FirstInDeclarationOrder ==
    (op = "structure" /\ ~sfn.detailed) =>
        LET failing == SelectSeq(Handled, FastFails)
            keyed == \A i \in 1..Len(Handled) : Invoked(Handled[i], arg)
        IN  (keyed /\ Len(failing) >= 2) =>
                LET at == FirstIndex(Handled, FastFails)
                IN  /\ ret.raised
                    /\ ret.at = Handled[at]
                    /\ ret.exc = OwnException(Handled[at], arg)
                    /\ ret.errors = <<>>
                    /\ ret.calls =
                          SelectSeq(SubSeq(Handled, 1, at),
                                    LAMBDA k : Invoked(k, arg))

\* The order in which the fast-mode function evaluates the attributes:
\* the required ones in declaration order, then the optional ones in
\* declaration order.
EvaluationOrder ==
    SelectSeq(Handled, IsRequired)
        \o SelectSeq(Handled, LAMBDA k : ~IsRequired(k))

\* C7 as amended: in fast mode, when attributes fail, the call raises the
\* unmodified exception of the failing attribute first in evaluation
\* order (required attributes in declaration order, then optional ones),
\* and the handler of no attribute later in that order runs; when none
\* fails it returns.
C7_FirstInEvaluationOrder ==
    (op \in {"structure", "roundtrip"} /\ ~sfn.detailed) =>
        LET failing == SelectSeq(EvaluationOrder, FastFails)
        IN  /\ ret.raised <=> failing # <<>>
            /\ ret.errors = <<>>
            /\ failing # <<>> =>
                LET at == FirstIndex(EvaluationOrder, FastFails)
                IN  /\ ret.at = EvaluationOrder[at]
                    /\ ret.at = failing[1]
                    /\ ret.exc = OwnException(EvaluationOrder[at], arg)
                    /\ ret.calls =
                          SelectSeq(SubSeq(EvaluationOrder, 1, at),
                                    LAMBDA k : Invoked(k, arg))

\* C7 witness: an optional attribute declared first and a required one
\* declared second both fail; the required one's exception is raised and
\* the optional one's handler never ran.
C7_Witness ==
    /\ op = "structure" /\ ~sfn.detailed
    /\ Len(cl.annotations) = 2 /\ cl.required_keys = {"b"}
    /\ FastFails("a") /\ FastFails("b")
    /\ ret.raised /\ ret.at = "b" /\ ret.calls = <<"b">>
    /\ ret.exc.kind \in {"ValueError", "TypeError"}

\* No declared attribute has an override and each one's resolved handler
\* is the converter's identity handler.
AllIdentity ==
    \A k \in Declared :
        /\ k \notin DOMAIN kwargs
        /\ unstructure_handler(cl, converter, AttrOf(k))
              = "_unstructure_identity"

\* C8: the unstructured result is the very object passed in if and only
\* if no declared attribute has an override and every declared
\* attribute's handler is the converter's identity handler; otherwise it
\* is a distinct mapping object.
C8_IdentityShortCircuit ==
    (op = "unstructure" /\ ~ret.raised) =>
        /\ ret.obj = "arg" <=> AllIdentity
        /\ ret.obj = "copy" <=> ~AllIdentity

\* C8 witness: with a user hook for int that returns its argument, an
\* all-int type without overrides unstructures to a distinct, equal
\* mapping.
C8_Witness ==
    /\ op = "unstructure" /\ ~ret.raised
    /\ converter.int_hook /\ NoOverrides
    /\ Len(cl.annotations) = 2
    /\ \A k \in Declared : AttrOf(k).type = "int"
    /\ DOMAIN arg = Keys
    /\ ret.obj = "copy" /\ ret.value = arg

\* C8 witness, short-circuit: an all-int type without overrides returns
\* the instance itself.
C8_WitnessSame ==
    /\ op = "unstructure" /\ ~ret.raised
    /\ ~converter.int_hook /\ NoOverrides
    /\ Len(cl.annotations) = 2
    /\ DOMAIN arg = Keys
    /\ ret.obj = "arg"

\* C9 as claimed: the unstructure function never mutates its argument and
\* always returns a new mapping object, distinct from the argument.
C9_AlwaysNewMapping ==
    op = "unstructure" =>
        /\ ret.arg = arg
        /\ ~ret.raised => ret.obj # "arg"

\* C9 as amended: the unstructure function never mutates its argument,
\* and returns a new mapping object, distinct from the argument, except
\* when the identity short-circuit applies (no override, every handler
\* the identity): then it returns the argument itself.
C9_NewMappingUnlessShortCircuit ==
    op = "unstructure" =>
        /\ ret.arg = arg
        /\ (~ret.raised /\ ~AllIdentity) =>
              /\ ret.obj = "copy"
              /\ DOMAIN arg \subseteq DOMAIN ret.value
        /\ (~ret.raised /\ AllIdentity) =>
              /\ ret.obj = "arg" /\ ret.value = arg

\* C9 witness: a generated function wrote a converted value into its
\* result, and the argument is as it was.
C9_Witness ==
    /\ op = "unstructure" /\ ~ret.raised
    /\ ret.obj = "copy" /\ ret.value # arg /\ ret.arg = arg
    /\ Len(ret.calls) = 2

\* C10: an optional attribute k absent from the input (under its own name
\* and under its key) is not populated by the structure function, which
\* runs no handler for it and raises no error on its account; and the
\* unstructure function returns a mapping without k when k is absent from
\* the instance.
C10_OptionalAbsent ==
    \A k \in Declared \ cl.required_keys :
        /\ (op = "structure" /\ k \notin DOMAIN arg
               /\ KeyOf(k) \notin DOMAIN arg) =>
              /\ ~ret.raised => k \notin DOMAIN ret.value
              /\ \A i \in 1..Len(ret.calls) : ret.calls[i] # k
              /\ ret.at # k
              /\ \A i \in 1..Len(ret.errors) : ret.errors[i].at # k
        /\ (op = "unstructure" /\ k \notin DOMAIN arg) =>
              /\ ret.at # k
              /\ ~ret.raised => k \notin DOMAIN ret.value

\* C11.  What holds instead: make_dict_structure_fn called for a generic
\* record type whose type variable has no binding raises
\* StructureHandlerNotFoundError naming that variable, with or without a
\* struct_hook override for the attribute typed by it; no function is
\* returned, so no structure call is ever made.
HookForVariable ==
    \A k \in Declared :
        AttrOf(k).type = "T" =>
            /\ k \in DOMAIN kwargs
            /\ kwargs[k].struct_hook # None

ActiveTypes == {stack[i].cl : i \in 1..Len(stack)}

\* C12.  Across any sequence of make_dict_unstructure_fn calls, nested
\* through dispatch or not, working_set holds exactly the record types
\* with a call in progress, one call each; a re-entrant call that raised
\* RecursionError has left the outer call's entry in the set; and once
\* the outermost call has ended, by returning a generated function, by
\* returning the identity handler or by raising, the set is what it was
\* before the call, empty.
C12_WorkingSetIsActiveCalls ==
    /\ working_set = ActiveTypes
    /\ Cardinality(working_set) = Len(stack)
    /\ (signal.kind = "raise" /\ signal.exc = RecursionError) =>
          /\ signal.cl \in working_set
          /\ signal.cl \in ActiveTypes
    /\ stack = <<>> => working_set = {}

\* C12 witness: inside a nested call, a re-entrant call for the type of
\* the outer call has just raised RecursionError.
C12_Witness ==
    /\ Len(stack) = 2
    /\ signal.kind = "raise"
    /\ signal.exc = RecursionError
    /\ signal.cl = stack[1].cl

\* C12 witness: the outermost call ended through the short-circuit after
\* a nested call did.
C12_WitnessIdentity ==
    /\ stack = <<>>
    /\ signal.kind = "return"
    /\ signal.fn.kind = "_unstructure_identity"
    /\ \E i \in 1..Len(cl.annotations) : cl.annotations[i].type \in TypeNames

\* C12 witness: the outermost call ended by an exception of a nested call
\* passing through it.
C12_WitnessRaised ==
    /\ stack = <<>>
    /\ signal.kind = "raise"
    /\ cl.resolvable
    /\ signal.cl = cl.name

\* The handlers the lines bind for attribute k.
BoundFor(lines, k) ==
    {lines[i].handler : i \in {j \in 1..Len(lines) : lines[j].source = k}}

\* make_dict_unstructure_fn: an attribute whose dispatch raised
\* RecursionError is bound to converter.unstructure once the second loop
\* has passed it, the call that caught it returns a generated function
\* binding it so, and RecursionError comes only from the re-entrant call
\* itself, never out of a call that entered generation.
UnstructureFallback ==
    /\ \A n \in 1..Len(stack) :
          LET f == stack[n]
              attrs == adapted_fields(decls[f.cl])
          IN  \A i \in 1..Len(attrs) :
                  (/\ attrs[i].name \in f.caught
                   /\ f.pc = "second_loop"
                   /\ i < f.i)
                      => BoundFor(f.lines, attrs[i].name) = {"unstructure"}
    /\ (signal.kind = "return" /\ signal.caught # {}) =>
          /\ signal.fn.kind = "generated"
          /\ \A k \in signal.caught :
                BoundFor(signal.fn.lines, k) = {"unstructure"}
    /\ (signal.kind = "raise" /\ signal.exc = RecursionError) =>
          /\ stack # <<>>
          /\ signal.cl \in ActiveTypes

\* The attributes of cl for which make_dict_structure_fn dispatches a
\* self-referential type: not omitted, and in detailed-validation mode
\* without a struct_hook.
RecursiveDispatches(detailed_validation) ==
    {cl.annotations[i].name : i \in
        {j \in 1..Len(cl.annotations) :
            /\ cl.annotations[j].type \in converter.recursive
            /\ ~KwargsGet(kwargs, cl.annotations[j].name).omit
            /\ detailed_validation =>
                  KwargsGet(kwargs, cl.annotations[j].name).struct_hook
                      = None}}

\* make_dict_structure_fn, in either mode: a function is generated, and
\* it binds converter.structure for every attribute whose dispatch raised
\* RecursionError.
StructureFallback ==
    sfn # NoFn =>
        /\ sfn.kind = "generated"
        /\ \A i \in 1..Len(sfn.lines) :
              sfn.lines[i].attr \in RecursiveDispatches(sfn.detailed) =>
                  sfn.lines[i].handler = "structure"

\* C13.  In both generators, and for make_dict_structure_fn in both modes,
\* when the dispatch of a field's type raises RecursionError because the
\* type graph is self-referential, generation does not fail: the field is
\* bound to converter.unstructure, respectively converter.structure, and a
\* generated function is returned.
C13_RecursionFallback ==
    /\ UnstructureFallback
    /\ StructureFallback

\* The fallback where the code has it: make_dict_unstructure_fn, and
\* make_dict_structure_fn in detailed-validation mode.
FallbackWhereCaught ==
    /\ UnstructureFallback
    /\ (sfn # NoFn /\ sfn.detailed) => StructureFallback

\* A call that caught RecursionError in its second loop has returned.
FallbackReturned ==
    /\ stack = <<>>
    /\ signal.kind = "return"
    /\ signal.caught # {}

\* Detailed-validation generation for a self-referential type returned.
FallbackDetailed ==
    /\ sfn.kind = "generated"
    /\ sfn.detailed
    /\ RecursiveDispatches(TRUE) # {}

====
